---- MODULE Spec2Model ----
(***************************************************************************)
(* A model of lambda/scan_metadata.py: lambda_handler, which unwraps a     *)
(* batch of SQS records (SQS body -> SNS message -> S3 event records),     *)
(* looks up each object's metadata, and writes one result document per S3  *)
(* record to the destination bucket, counting processed and failed.        *)
(*                                                                         *)
(* Strings are sequences of ASCII codes where the code transforms them     *)
(* (object keys); clock readings are integers counting microseconds.       *)
(* A JSON text is modelled by the value it parses to, or by a tag saying   *)
(* at which step of the unwrapping it fails.                               *)
(***************************************************************************)
EXTENDS Integers, Sequences, FiniteSets, TLC

VARIABLES
    event,              \* the invocation's input: [Records |-> sequence of SQS records]
    environ,            \* os.environ, restricted to DESTINATION_BUCKET
    now,                \* the last reading of the UTC clock, in microseconds
    pc,                 \* position of the handler in its code
    destination_bucket,
    processed_count,
    failed_count,
    i,                  \* index in event['Records'] of `record`
    j,                  \* index in sns_message['Records'] of `s3_record`
    object_key,         \* the decoded key of the current s3_record
    content_type,
    last_modified,
    result,
    result_key,
    head_calls,         \* every s3_client.head_object call made so far, in order
    put_calls,          \* every s3_client.put_object call made so far, in order
    response            \* what lambda_handler returned

vars == <<event, environ, now, pc, destination_bucket, processed_count, failed_count,
          i, j, object_key, content_type, last_modified, result, result_key,
          head_calls, put_calls, response>>

(***************************************************************************)
(* Bounds of the model.                                                    *)
(***************************************************************************)
\* SQS records in one batch
MaxEnvelopes == 2
\* S3 event records in one batch, over all its SQS records
MaxRecords == 2

(***************************************************************************)
(* Inputs.                                                                 *)
(***************************************************************************)
\* "%2F%2B+" and "_%2B+", as they arrive in the S3 notification
RawKeys == { <<37, 50, 70, 37, 50, 66, 43>>, <<95, 37, 50, 66, 43>> }

\* An s3_record either carries all the fields lines 31-34 read, or lacks one.
S3Records ==
    [wellformed : {TRUE}, bucket : {"srcbkt"}, key : RawKeys, size : {1024},
     eventTime : {"2024-01-01T00:00:00Z"}]
    \cup
    [wellformed : {FALSE}, bucket : {"srcbkt"}, key : {<<>>}, size : {1024},
     eventTime : {"2024-01-01T00:00:00Z"}]

SeqsUpTo(S, n) == UNION { [1..m -> S] : m \in 0..n }

\* body: "ok" when both JSON texts parse and carry their fields; "invalid_body"
\* when json.loads of the body raises (line 23); "invalid_Message" when the
\* body parses but the SNS message in it is missing, is no JSON or has no
\* 'Records' (lines 26 and 29 raise).
SqsRecords ==
    [body : {"ok"}, Records : SeqsUpTo(S3Records, MaxRecords)]
    \cup
    [body : {"invalid_body", "invalid_Message"}, Records : {<<>>}]

RECURSIVE TotalRecords(_)
TotalRecords(rs) ==
    IF rs = <<>> THEN 0 ELSE Len(Head(rs).Records) + TotalRecords(Tail(rs))

Batches ==
    { b \in SeqsUpTo(SqsRecords, MaxEnvelopes) : TotalRecords(b) <= MaxRecords }

Environs ==
    { [n \in S |-> "dstbkt"] : S \in SUBSET {"DESTINATION_BUCKET"} }

\* What head_object returns for a key when it does not raise: the object
\* "/+ " has a content type and a modification time (a clock reading), the
\* response for any other key lacks both fields.
HeadResponse(key) ==
    IF key = <<47, 43, 32>>
    THEN [ContentType |-> "image/png", LastModified |-> 5]
    ELSE [ContentType |-> "", LastModified |-> -1]

(***************************************************************************)
(* Pure functions.                                                         *)
(***************************************************************************)
IsHex(c) == (c \in 48..57) \/ (c \in 65..70) \/ (c \in 97..102)

HexVal(c) == IF c \in 48..57 THEN c - 48 ELSE IF c \in 65..70 THEN c - 55 ELSE c - 87

\* urllib.parse.unquote on ASCII escapes: %XX becomes the character XX, a '%'
\* not followed by two hex digits stays.
RECURSIVE unquote(_)
unquote(s) ==
    IF s = <<>> THEN <<>>
    ELSE IF s[1] = 37 /\ Len(s) >= 3 /\ IsHex(s[2]) /\ IsHex(s[3])
         THEN <<16 * HexVal(s[2]) + HexVal(s[3])>> \o unquote(SubSeq(s, 4, Len(s)))
         ELSE <<s[1]>> \o unquote(Tail(s))

\* str.replace for single characters
replace(s, old, new) == [k \in 1..Len(s) |-> IF s[k] = old THEN new ELSE s[k]]

\* A variant: the escapes are decoded first, so a '+' that was escaped as %2B
\* becomes a space too.
unquote_plus_DecodesFirst(s) == replace(unquote(s), 43, 32)

\* urllib.parse.unquote_plus: '+' becomes ' ' first, then the escapes are decoded
unquote_plus(s) == unquote(replace(s, 43, 32))

\* datetime.isoformat(): the microseconds are left out when they are 0
isoformat(t) ==
    IF t % 1000000 = 0 THEN <<t \div 1000000>> ELSE <<t \div 1000000, t % 1000000>>

\* datetime.strftime('%Y%m%d-%H%M%S-%f'): always seconds and six digits of microseconds
strftime(t) == <<t \div 1000000, t % 1000000>>

\* f"processed/{timestamp}-{object_key.replace('/', '_')}.json"
ResultKey(timestamp, key) ==
    [prefix |-> "processed/", timestamp |-> timestamp,
     key |-> replace(key, 47, 95), suffix |-> ".json"]

\* datetime.utcnow(): the clock does not run backwards, and two readings can
\* fall in the same microsecond.
ClockReadings == { now, now + 1 }

NoResult ==
    [source_bucket |-> "", object_key |-> <<>>, object_size |-> 0, content_type |-> "",
     event_time |-> "", last_modified |-> <<>>, processed_at |-> <<>>, status |-> ""]

NoResponse == [statusCode |-> 0, body |-> [processed |-> 0, failed |-> 0]]

record == event.Records[i]

s3_record == record.Records[j]

(***************************************************************************)
(* The handler.                                                            *)
(***************************************************************************)
Init ==
    /\ event \in { [Records |-> b] : b \in Batches }
    /\ environ \in Environs
    /\ now = 999998
    /\ pc = "start"
    /\ destination_bucket = ""
    /\ processed_count = 0
    /\ failed_count = 0
    /\ i = 0
    /\ j = 0
    /\ object_key = <<>>
    /\ content_type = ""
    /\ last_modified = <<>>
    /\ result = NoResult
    /\ result_key = ResultKey(<<>>, <<>>)
    /\ head_calls = <<>>
    /\ put_calls = <<>>
    /\ response = NoResponse

\* A variant: the handler counts the failure and raises again.
Except_Reraises ==
    /\ failed_count' = failed_count + 1
    /\ pc' = "raised"

\* A variant: the try sits inside the loop over the s3 records, so the loop
\* goes on with the next s3_record of the same SQS record.
Except_PerS3Record ==
    /\ failed_count' = failed_count + 1
    /\ pc' = "for_s3_record"

\* lines 80-83: the handler of the per-record try; the loop goes on to the next record
Except ==
    /\ failed_count' = failed_count + 1
    /\ pc' = "for_record"

\* lines 15-18
Start ==
    /\ pc = "start"
    /\ IF "DESTINATION_BUCKET" \in DOMAIN environ
       THEN /\ destination_bucket' = environ["DESTINATION_BUCKET"]
            /\ pc' = "for_record"
       ELSE /\ pc' = "raised"
            /\ UNCHANGED destination_bucket
    /\ processed_count' = 0
    /\ failed_count' = 0
    /\ UNCHANGED <<event, environ, now, i, j, object_key, content_type, last_modified,
                   result, result_key, head_calls, put_calls, response>>

\* A variant: a record that cannot be unwrapped ends the loop over the batch.
Unwrap_Breaks ==
    /\ pc = "for_record"
    /\ i < Len(event.Records)
    /\ j' = 0
    /\ IF event.Records[i + 1].body = "ok"
       THEN /\ i' = i + 1
            /\ pc' = "for_s3_record"
            /\ UNCHANGED failed_count
       ELSE /\ i' = Len(event.Records)
            /\ Except
    /\ UNCHANGED <<event, environ, now, destination_bucket, processed_count, object_key,
                   content_type, last_modified, result, result_key, head_calls,
                   put_calls, response>>

\* lines 20-29: take the next SQS record, parse its body and the SNS message in it
Unwrap ==
    /\ pc = "for_record"
    /\ i < Len(event.Records)
    /\ i' = i + 1
    /\ j' = 0
    /\ IF event.Records[i + 1].body = "ok"
       THEN /\ pc' = "for_s3_record"
            /\ UNCHANGED failed_count
       ELSE Except
    /\ UNCHANGED <<event, environ, now, destination_bucket, processed_count, object_key,
                   content_type, last_modified, result, result_key, head_calls,
                   put_calls, response>>

\* lines 29-36: take the next s3_record and read its fields
Extract ==
    /\ pc = "for_s3_record"
    /\ IF j < Len(record.Records)
       THEN /\ j' = j + 1
            /\ IF record.Records[j + 1].wellformed
               THEN /\ object_key' = unquote_plus(record.Records[j + 1].key)
                    /\ pc' = "head_object"
                    /\ UNCHANGED failed_count
               ELSE /\ Except
                    /\ UNCHANGED object_key
       ELSE /\ pc' = "for_record"
            /\ UNCHANGED <<j, object_key, failed_count>>
    /\ UNCHANGED <<event, environ, now, destination_bucket, processed_count, i,
                   content_type, last_modified, result, result_key, head_calls,
                   put_calls, response>>

\* A variant: there is no inner try, a failing lookup is handled by the outer one.
HeadObject_Propagates ==
    /\ pc = "head_object"
    /\ \E raises \in BOOLEAN :
        /\ head_calls' = Append(head_calls,
               [record |-> i, s3_record |-> j, Bucket |-> s3_record.bucket,
                Key |-> object_key, raises |-> raises])
        /\ IF raises
           THEN /\ Except
                /\ UNCHANGED <<content_type, last_modified>>
           ELSE LET out == HeadResponse(object_key) IN
                /\ content_type' =
                       IF out.ContentType = "" THEN "unknown" ELSE out.ContentType
                /\ last_modified' =
                       IF out.LastModified = -1 THEN <<>> ELSE isoformat(out.LastModified)
                /\ pc' = "result"
                /\ UNCHANGED failed_count
    /\ UNCHANGED <<event, environ, now, destination_bucket, processed_count,
                   i, j, object_key, result, result_key, put_calls, response>>

\* lines 39-51
HeadObject ==
    /\ pc = "head_object"
    /\ \E raises \in BOOLEAN :
        /\ head_calls' = Append(head_calls,
               [record |-> i, s3_record |-> j, Bucket |-> s3_record.bucket,
                Key |-> object_key, raises |-> raises])
        /\ IF raises
           THEN /\ content_type' = "unknown"
                /\ last_modified' = <<>>
           ELSE LET out == HeadResponse(object_key) IN
                /\ content_type' =
                       IF out.ContentType = "" THEN "unknown" ELSE out.ContentType
                /\ last_modified' =
                       IF out.LastModified = -1 THEN <<>> ELSE isoformat(out.LastModified)
    /\ pc' = "result"
    /\ UNCHANGED <<event, environ, now, destination_bucket, processed_count, failed_count,
                   i, j, object_key, result, result_key, put_calls, response>>

\* lines 54-63
BuildResult ==
    /\ pc = "result"
    /\ now' \in ClockReadings
    /\ result' = [source_bucket |-> s3_record.bucket, object_key |-> object_key,
                  object_size |-> s3_record.size, content_type |-> content_type,
                  event_time |-> s3_record.eventTime, last_modified |-> last_modified,
                  processed_at |-> isoformat(now'), status |-> "processed"]
    /\ pc' = "result_key"
    /\ UNCHANGED <<event, environ, destination_bucket, processed_count, failed_count,
                   i, j, object_key, content_type, last_modified, result_key,
                   head_calls, put_calls, response>>

\* lines 65-67
NameResult ==
    /\ pc = "result_key"
    /\ now' \in ClockReadings
    /\ result_key' = ResultKey(strftime(now'), object_key)
    /\ pc' = "put_object"
    /\ UNCHANGED <<event, environ, destination_bucket, processed_count, failed_count,
                   i, j, object_key, content_type, last_modified, result,
                   head_calls, put_calls, response>>

\* A variant: processed_count is incremented before the write is known to succeed.
PutObject_CountsFirst ==
    /\ pc = "put_object"
    /\ \E raises \in BOOLEAN :
        /\ put_calls' = Append(put_calls,
               [record |-> i, s3_record |-> j, Bucket |-> destination_bucket,
                Key |-> result_key, Body |-> result,
                ContentType |-> "application/json", raises |-> raises])
        /\ processed_count' = processed_count + 1
        /\ IF raises
           THEN Except
           ELSE /\ pc' = "for_s3_record"
                /\ UNCHANGED failed_count
    /\ UNCHANGED <<event, environ, now, destination_bucket, i, j, object_key,
                   content_type, last_modified, result, result_key, head_calls, response>>

\* A variant: a failing write is counted and the loop over the s3 records goes on.
PutObject_Continues ==
    /\ pc = "put_object"
    /\ \E raises \in BOOLEAN :
        /\ put_calls' = Append(put_calls,
               [record |-> i, s3_record |-> j, Bucket |-> destination_bucket,
                Key |-> result_key, Body |-> result,
                ContentType |-> "application/json", raises |-> raises])
        /\ IF raises
           THEN /\ failed_count' = failed_count + 1
                /\ UNCHANGED processed_count
           ELSE /\ processed_count' = processed_count + 1
                /\ UNCHANGED failed_count
        /\ pc' = "for_s3_record"
    /\ UNCHANGED <<event, environ, now, destination_bucket, i, j, object_key,
                   content_type, last_modified, result, result_key, head_calls, response>>

\* lines 69-78
PutObject ==
    /\ pc = "put_object"
    /\ \E raises \in BOOLEAN :
        /\ put_calls' = Append(put_calls,
               [record |-> i, s3_record |-> j, Bucket |-> destination_bucket,
                Key |-> result_key, Body |-> result,
                ContentType |-> "application/json", raises |-> raises])
        /\ IF raises
           THEN /\ Except
                /\ UNCHANGED processed_count
           ELSE /\ processed_count' = processed_count + 1
                /\ pc' = "for_s3_record"
                /\ UNCHANGED failed_count
    /\ UNCHANGED <<event, environ, now, destination_bucket, i, j, object_key,
                   content_type, last_modified, result, result_key, head_calls, response>>

\* lines 85-91
Return ==
    /\ pc = "for_record"
    /\ i >= Len(event.Records)
    /\ response' = [statusCode |-> 200,
                    body |-> [processed |-> processed_count, failed |-> failed_count]]
    /\ pc' = "returned"
    /\ UNCHANGED <<event, environ, now, destination_bucket, processed_count, failed_count,
                   i, j, object_key, content_type, last_modified, result, result_key,
                   head_calls, put_calls>>

Next ==
    \/ Start
    \/ Unwrap
    \/ Extract
    \/ HeadObject
    \/ BuildResult
    \/ NameResult
    \/ PutObject
    \/ Return

Spec == Init /\ [][Next]_vars

(***************************************************************************)
(* Vocabulary of the properties.                                           *)
(***************************************************************************)
Envelopes == DOMAIN event.Records

HeadCallsOf(a, b) ==
    { k \in DOMAIN head_calls : head_calls[k].record = a /\ head_calls[k].s3_record = b }

PutCallsOf(a, b) ==
    { m \in DOMAIN put_calls : put_calls[m].record = a /\ put_calls[m].s3_record = b }

\* the put_object calls that returned: the Result Records written
Written == { m \in DOMAIN put_calls : ~put_calls[m].raises }

\* the SQS record unwraps and every s3_record in it carries its fields
WellFormed(a) ==
    /\ event.Records[a].body = "ok"
    /\ \A b \in DOMAIN event.Records[a].Records : event.Records[a].Records[b].wellformed

WellFormedBatch == \A a \in Envelopes : WellFormed(a)

\* the SQS record unwraps and the fields of its first s3_record can be read
HasFirstEvent(a) ==
    /\ event.Records[a].body = "ok"
    /\ Len(event.Records[a].Records) >= 1
    /\ event.Records[a].Records[1].wellformed

\* the instant a formatted time stands for, in microseconds
InstantOfIso(s) == IF Len(s) = 1 THEN s[1] * 1000000 ELSE s[1] * 1000000 + s[2]

InstantOfStrftime(s) == s[1] * 1000000 + s[2]

\* what Python's unquote_plus returns for the keys of RawKeys: "/+ " and "_+ "
Decoded(raw) ==
    CASE raw = <<37, 50, 70, 37, 50, 66, 43>> -> <<47, 43, 32>>
      [] raw = <<95, 37, 50, 66, 43>> -> <<95, 43, 32>>

\* the same with '/' replaced by '_': both are "_+ "
Flattened(raw) ==
    CASE raw = <<37, 50, 70, 37, 50, 66, 43>> -> <<95, 43, 32>>
      [] raw = <<95, 37, 50, 66, 43>> -> <<95, 43, 32>>

RawKeyOf(a, b) == event.Records[a].Records[b].key

\* an upper bound on the steps the handler still has to take
RECURSIVE Cost(_)
Cost(rs) == IF rs = <<>> THEN 0 ELSE 2 + 5 * Len(Head(rs).Records) + Cost(Tail(rs))

InEnvelope ==
    CASE pc = "for_s3_record" -> 1 + 5 * (Len(record.Records) - j)
      [] pc = "head_object"   -> 5 + 5 * (Len(record.Records) - j)
      [] pc = "result"        -> 4 + 5 * (Len(record.Records) - j)
      [] pc = "result_key"    -> 3 + 5 * (Len(record.Records) - j)
      [] pc = "put_object"    -> 2 + 5 * (Len(record.Records) - j)
      [] OTHER                -> 0

Remaining ==
    CASE pc \in {"returned", "raised"} -> 0
      [] pc = "start" -> 2 + Cost(event.Records)
      [] OTHER -> 1 + Cost(SubSeq(event.Records, i + 1, Len(event.Records))) + InEnvelope

(***************************************************************************)
(* C1                                                                      *)
(***************************************************************************)
\* C1 as stated: whatever the metadata lookup, the output write and the
\* configuration lookup do, the handler never raises, and it returns status
\* 200 with the {processed, failed} counts.
C1_NeverRaises ==
    /\ pc # "raised"
    /\ pc = "returned" =>
          response = [statusCode |-> 200,
                      body |-> [processed |-> processed_count, failed |-> failed_count]]

\* C1 amended: the handler raises only when DESTINATION_BUCKET is not set, and
\* then before it touched any record; when it is set, whatever the lookups and
\* writes do, every step brings the handler closer to its return, no state
\* before the return is stuck, and it returns status 200 with the counts.
C1_RaisesOnlyWithoutDestination ==
    /\ [](pc = "raised" =>
            /\ "DESTINATION_BUCKET" \notin DOMAIN environ
            /\ i = 0 /\ head_calls = <<>> /\ put_calls = <<>>)
    /\ [](pc = "returned" =>
            response = [statusCode |-> 200,
                        body |-> [processed |-> processed_count,
                                  failed |-> failed_count]])
    /\ [](pc \notin {"returned", "raised"} => ENABLED Next)
    /\ [][Remaining' < Remaining]_vars

\* the handler returned although a lookup, a write and an unwrapping failed
C1_Witness ==
    /\ pc = "returned"
    /\ response.statusCode = 200
    /\ response.body.failed >= 1
    /\ \E k \in DOMAIN head_calls : head_calls[k].raises
    /\ \E m \in DOMAIN put_calls : put_calls[m].raises

(***************************************************************************)
(* C2                                                                      *)
(***************************************************************************)
\* C2: at the return, every Storage Event of an SQS record that was unwrapped
\* has had exactly one head_object call and exactly one put_object call.
C2_OneFetchOneWritePerEvent ==
    pc = "returned" =>
        \A a \in Envelopes :
            WellFormed(a) =>
                \A b \in DOMAIN event.Records[a].Records :
                    /\ Cardinality(HeadCallsOf(a, b)) = 1
                    /\ Cardinality(PutCallsOf(a, b)) = 1

(***************************************************************************)
(* C3                                                                      *)
(***************************************************************************)
\* C3: for a well-formed batch processed + failed never exceeds the number of
\* Storage Events in the batch, and at the return it equals that number
\* unless a put_object call raised.
C3_CountsBoundedByEvents ==
    WellFormedBatch =>
        /\ processed_count + failed_count <= TotalRecords(event.Records)
        /\ (pc = "returned" /\ \A m \in DOMAIN put_calls : ~put_calls[m].raises)
              => processed_count + failed_count = TotalRecords(event.Records)

\* a well-formed batch returned with fewer counts than events: a write failed
\* before the last event of its SQS record
C3_Witness ==
    /\ pc = "returned"
    /\ WellFormedBatch
    /\ TotalRecords(event.Records) >= 2
    /\ processed_count + failed_count < TotalRecords(event.Records)

(***************************************************************************)
(* C4                                                                      *)
(***************************************************************************)
\* C4: a head_object call that raises changes neither count and the handler
\* goes on to build the result; the event gets one put_object call, never
\* more, whose body has content type "unknown" and last-modified ""; and a
\* put_object call that returns increments processed, whatever the lookup did.
C4_LookupFailureFallsBack ==
    /\ [](\A k \in DOMAIN head_calls :
            head_calls[k].raises =>
                LET a == head_calls[k].record
                    b == head_calls[k].s3_record
                    underway == a = i /\ b = j
                                  /\ pc \in {"result", "result_key", "put_object"}
                IN  /\ Cardinality(PutCallsOf(a, b)) = IF underway THEN 0 ELSE 1
                    /\ \A m \in PutCallsOf(a, b) :
                          /\ put_calls[m].Body.content_type = "unknown"
                          /\ put_calls[m].Body.last_modified = <<>>
                    /\ underway /\ pc \in {"result_key", "put_object"} =>
                          /\ result.content_type = "unknown"
                          /\ result.last_modified = <<>>)
    /\ [][Len(head_calls') > Len(head_calls) =>
            /\ failed_count' = failed_count
            /\ processed_count' = processed_count
            /\ pc' = "result"]_vars
    /\ [][(Len(put_calls') > Len(put_calls) /\ ~put_calls'[Len(put_calls')].raises) =>
            processed_count' = processed_count + 1]_vars

\* the lookup of an event failed, its record was written, nothing was counted as failed
C4_Witness ==
    /\ pc = "returned"
    /\ failed_count = 0
    /\ \E k \in DOMAIN head_calls :
          /\ head_calls[k].raises
          /\ \E m \in PutCallsOf(head_calls[k].record, head_calls[k].s3_record) :
                /\ ~put_calls[m].raises
                /\ put_calls[m].Body.content_type = "unknown"
    /\ processed_count >= 1

(***************************************************************************)
(* C5                                                                      *)
(***************************************************************************)
\* C5: taking an SQS record whose body or inner message cannot be
\* deserialized adds 1 to failed, leaves processed alone and makes no
\* head_object or put_object call, then or later; and the SQS records after
\* it are still processed: at the return every SQS record with a readable
\* first event has had its lookup.
C5_MalformedEnvelopeCountsOnce ==
    /\ [][(pc = "for_record" /\ i' = i + 1 /\ event.Records[i'].body # "ok") =>
            /\ failed_count' = failed_count + 1
            /\ processed_count' = processed_count
            /\ head_calls' = head_calls
            /\ put_calls' = put_calls
            /\ pc' = "for_record"]_vars
    /\ [](\A k \in DOMAIN head_calls : event.Records[head_calls[k].record].body = "ok")
    /\ [](\A m \in DOMAIN put_calls : event.Records[put_calls[m].record].body = "ok")
    /\ [](pc = "returned" =>
            /\ i = Len(event.Records)
            /\ \A a \in Envelopes : HasFirstEvent(a) => HeadCallsOf(a, 1) # {})

\* a malformed SQS record was counted and the record after it was processed
C5_Witness ==
    /\ pc = "returned"
    /\ Len(event.Records) = 2
    /\ event.Records[1].body # "ok"
    /\ failed_count = 1
    /\ processed_count = 1
    /\ PutCallsOf(2, 1) # {}

(***************************************************************************)
(* C6                                                                      *)
(***************************************************************************)
\* C6: no two put_object calls of one invocation use the same key, for a
\* clock whose readings never decrease.
C6_OutputKeysUnique ==
    \A m, n \in DOMAIN put_calls : m # n => put_calls[m].Key # put_calls[n].Key

(***************************************************************************)
(* C7                                                                      *)
(***************************************************************************)
\* C7: the key given to head_object and the object_key of the result are the
\* notification's key percent- and plus-decoded, and the key part of the
\* output key is that with '/' replaced by '_'; none of them is the raw key.
C7_DecodedKeyEverywhere ==
    /\ \A k \in DOMAIN head_calls :
          LET raw == RawKeyOf(head_calls[k].record, head_calls[k].s3_record)
          IN  head_calls[k].Key = Decoded(raw) /\ head_calls[k].Key # raw
    /\ \A m \in DOMAIN put_calls :
          LET raw == RawKeyOf(put_calls[m].record, put_calls[m].s3_record)
          IN  /\ put_calls[m].Body.object_key = Decoded(raw)
              /\ put_calls[m].Body.object_key # raw
              /\ put_calls[m].Key.key = Flattened(raw)
              /\ put_calls[m].Key.key # raw
              /\ put_calls[m].Key.prefix = "processed/"
              /\ put_calls[m].Key.suffix = ".json"

\* the event with key "%2F%2B+" was looked up as "/+ " and written under "_+ "
C7_Witness ==
    \E m \in Written :
        /\ RawKeyOf(put_calls[m].record, put_calls[m].s3_record)
              = <<37, 50, 70, 37, 50, 66, 43>>
        /\ put_calls[m].Body.object_key = <<47, 43, 32>>
        /\ put_calls[m].Key.key = <<95, 43, 32>>
        /\ \E k \in HeadCallsOf(put_calls[m].record, put_calls[m].s3_record) :
              head_calls[k].Key = <<47, 43, 32>>

(***************************************************************************)
(* C8                                                                      *)
(***************************************************************************)
\* C8: a put_object call that raises adds 1 to failed, keeps processed, and
\* sends the handler to the next SQS record; the events after it in the same
\* SQS record get no head_object and no put_object call; and the SQS records
\* after it are still processed.
C8_WriteFailureSkipsRestOfEnvelope ==
    /\ [][(Len(put_calls') > Len(put_calls) /\ put_calls'[Len(put_calls')].raises) =>
            /\ failed_count' = failed_count + 1
            /\ processed_count' = processed_count
            /\ pc' = "for_record"
            /\ i' = i]_vars
    /\ [](\A m \in DOMAIN put_calls :
            put_calls[m].raises =>
                \A b \in DOMAIN event.Records[put_calls[m].record].Records :
                    b > put_calls[m].s3_record =>
                        /\ HeadCallsOf(put_calls[m].record, b) = {}
                        /\ PutCallsOf(put_calls[m].record, b) = {})
    /\ [](pc = "returned" =>
            /\ i = Len(event.Records)
            /\ \A a \in Envelopes : HasFirstEvent(a) => HeadCallsOf(a, 1) # {})

\* the write of the first of two events failed, the second was skipped, and
\* the handler took the next SQS record
C8_Witness ==
    /\ Len(event.Records) = 2
    /\ WellFormed(1)
    /\ Len(event.Records[1].Records) = 2
    /\ \E m \in PutCallsOf(1, 1) : put_calls[m].raises
    /\ HeadCallsOf(1, 2) = {}
    /\ i = 2
    /\ failed_count >= 1

(***************************************************************************)
(* C9                                                                      *)
(***************************************************************************)
\* C9: the timestamp in the output key is the instant of the record's
\* processed_at, so two records with the same processed_at and the same
\* object key have the same output key.
C9_KeyTimestampIsProcessedAt ==
    /\ \A m \in DOMAIN put_calls :
          InstantOfStrftime(put_calls[m].Key.timestamp)
              = InstantOfIso(put_calls[m].Body.processed_at)
    /\ \A m, n \in DOMAIN put_calls :
          (/\ put_calls[m].Body.processed_at = put_calls[n].Body.processed_at
           /\ put_calls[m].Body.object_key = put_calls[n].Body.object_key)
              => put_calls[m].Key = put_calls[n].Key

(***************************************************************************)
(* C10                                                                     *)
(***************************************************************************)
\* C10: processed is the number of put_object calls that returned, failed is
\* at most the number of SQS records taken so far, and the returned processed
\* is the number of Result Records written.
C10_CountsMatchWrites ==
    /\ processed_count = Cardinality(Written)
    /\ failed_count <= i
    /\ pc = "returned" => response.body.processed = Cardinality(Written)

\* a batch returned with a record written and a record failed
C10_Witness ==
    /\ pc = "returned"
    /\ response.body.processed >= 1
    /\ response.body.failed >= 1
    /\ Cardinality(Written) = response.body.processed
====
